---- MODULE Spec2Model ----
(***************************************************************************)
(* rock3d: image sanitization (classical engine src/preprocess.py, learned *)
(* engine src/preprocess_ia.py), the AliceVision orchestrator              *)
(* (src/pipeline.py), the green spill reduction of the learned engine and   *)
(* the mask chain of the classical engine.                                 *)
(*                                                                         *)
(* File names are sequences of character codes, so that sorting, glob      *)
(* matching, splitext/stem and endswith are computed as Python computes    *)
(* them (code point order, case-sensitive).                                *)
(***************************************************************************)
EXTENDS Integers, Sequences, FiniteSets, TLC

VARIABLES
    \* ---- sanitization engines ----
    engine,      \* "classical" (preprocess.py) or "learned" (preprocess_ia.py)
    rawDir,      \* data/raw: set of [name, q]
    outDir,      \* data/sanitized: set of [name, src, run, meta, orient]
    tempDir,     \* data/processed_temp: set of [name, src, q]
    files,       \* the list `files` built from the globs
    temp_map,    \* preprocess.py temp_map: stem -> temp png name
    final_map,   \* preprocess.py final_map: stem -> output name
    mapping,     \* preprocess_ia.py mapping: stem -> output name
    pc,          \* position of main()
    log,         \* messages printed / logged in this run: set of [kind, file]
    exifCalls,   \* exiftool subprocess invocations of this run
    exiftool,    \* outcome of shutil.which("exiftool"): "unknown","found","missing"
    sessions,    \* number of new_session() calls of this run
    session,     \* "none", "ok", "failed"
    inferCalls,  \* remove() calls of this run: set of [file, session]
    run,         \* number of the current run of main()
    prev,        \* output names and index at the end of the previous run
    \* ---- orchestrator (pipeline.py) ----
    env,         \* [bin, db]: ALICEVISION_BIN / ALICEVISION_SENSOR_DB are set
    sanExists,   \* os.path.exists(INPUT_IMAGES_DIR)
    sanDir,      \* names listed in INPUT_IMAGES_DIR
    recon,       \* OUTPUT_ROOT: [exists, files]
    ppc,         \* position of pipeline main()
    invoked,     \* step names handed to subprocess.run, in order
    exits,       \* the result of each invocation, in order
    status,      \* process exit status (-1 while running)
    summary,     \* the final success summary has been printed
    \* ---- green spill reduction ----
    px,          \* one pixel [r, g, b, a]
    gout,        \* the pixel returned by green_spill_reduction
    dpc,
    \* ---- classical mask chain ----
    image,       \* a synthetic image [h, w, rect, bg, fg], colours in HSV
    final_mask,  \* the pixels at 255 in final_mask
    mpc

sanVars  == <<engine, rawDir, outDir, tempDir, files, temp_map, final_map, mapping,
              pc, log, exifCalls, exiftool, sessions, session, inferCalls, run, prev>>
pipeVars == <<env, sanExists, sanDir, recon, ppc, invoked, exits, status, summary>>
pixVars  == <<px, gout, dpc>>
maskVars == <<image, final_mask, mpc>>
vars     == <<sanVars, pipeVars, pixVars, maskVars>>

(***************************************************************************)
(* Bounds of the model                                                     *)
(***************************************************************************)
MaxFiles == 2       \* files in data/raw
MaxStale == 1       \* files left in data/sanitized by an earlier run
MaxRuns == 2        \* consecutive runs of main() on the same input
MaxSanFiles == 4    \* files in data/sanitized seen by the orchestrator
MaxChannel == 15    \* largest channel value drawn for a pixel
MaxSide == 9        \* largest height and width of a synthetic image

(***************************************************************************)
(* Strings                                                                 *)
(***************************************************************************)
Min(a, b) == IF a < b THEN a ELSE b

\* Python's str < str: code point order, a proper prefix is smaller
LexLess(s, t) ==
    \E i \in 1..(Min(Len(s), Len(t)) + 1) :
        /\ \A j \in 1..(i - 1) : s[j] = t[j]
        /\ \/ i > Len(s) /\ i <= Len(t)
           \/ i <= Len(s) /\ i <= Len(t) /\ s[i] < t[i]

\* str.endswith / the tail match of a glob pattern "*<suffix>"
EndsWith(s, suffix) ==
    /\ Len(s) >= Len(suffix)
    /\ SubSeq(s, Len(s) - Len(suffix) + 1, Len(s)) = suffix

Dot == <<46>>
LastDot(s) == IF \E i \in 1..Len(s) : s[i] = 46
              THEN CHOOSE i \in 1..Len(s) : s[i] = 46 /\ \A j \in (i + 1)..Len(s) : s[j] # 46
              ELSE 0

\* os.path.splitext(name)[0] and Path.stem: the name up to its last dot
\* (a leading dot does not start an extension)
Stem(s) == IF LastDot(s) <= 1 THEN s ELSE SubSeq(s, 1, LastDot(s) - 1)

RECURSIVE Digits(_)
\* str(n) for n >= 0
Digits(n) == IF n < 10 THEN <<48 + n>> ELSE Digits(n \div 10) \o <<48 + (n % 10)>>

ExtJpg  == <<106, 112, 103>>         \* jpg
ExtJPG  == <<74, 80, 71>>            \* JPG
ExtJpeg == <<106, 112, 101, 103>>    \* jpeg
ExtPng  == <<112, 110, 103>>         \* png
ExtPNG  == <<80, 78, 71>>            \* PNG
ExtXmp  == <<120, 109, 112>>         \* xmp

\* f"{n}.jpg"
OutName(n) == Digits(n) \o Dot \o ExtJpg
\* f"{name}.png"
TempName(stem) == stem \o Dot \o ExtPng

\* sorted(): ascending by LexLess (the elements are distinct)
RECURSIVE SortedSeq(_)
SortedSeq(S) ==
    IF S = {} THEN <<>>
    ELSE LET m == CHOOSE x \in S : \A y \in S \ {x} : LexLess(x, y)
         IN  <<m>> \o SortedSeq(S \ {m})

\* every order in which a directory listing may return the set S
Orderings(S) ==
    {s \in [1..Cardinality(S) -> S] : \A i, j \in 1..Cardinality(S) : s[i] = s[j] => i = j}

(***************************************************************************)
(* Dictionaries                                                            *)
(***************************************************************************)
EmptyDict == [k \in {} |-> <<>>]
Put(d, k, v) == [x \in (DOMAIN d) \cup {k} |-> IF x = k THEN v ELSE d[x]]

(***************************************************************************)
(* The input directory                                                     *)
(***************************************************************************)
BaseNames == { <<97>>, <<97, 45, 98>>, <<98>> }      \* "a", "a-b", "b"
ImageExts == {ExtJpg, ExtJPG, ExtJpeg, ExtPng}
OtherExts == {ExtPNG, ExtXmp}
\* "ok": decodes; "corrupt": the first read of the file fails (cv2.imread is None,
\* remove() raises); "redecode_fail": the second decode fails (imread of the
\* temporary PNG, imdecode of the inference output)
Quality == {"ok", "corrupt", "redecode_fail"}
RawNames == { b \o Dot \o e : b \in BaseNames, e \in ImageExts \cup OtherExts }
IsImageName(n) == \E e \in ImageExts : EndsWith(n, Dot \o e)

RECURSIVE SubsetsUpTo(_, _)
SubsetsUpTo(S, k) ==
    IF k = 0 THEN {{}}
    ELSE LET P == SubsetsUpTo(S, k - 1) IN P \cup { p \cup {x} : p \in P, x \in S }

\* the directories of at most MaxFiles files; a file that no glob pattern of the
\* engines matches is never decoded, so its quality is left "ok"
RawDirs ==
    UNION { { { [name |-> n, q |-> qf[n]] : n \in N } :
                qf \in { h \in [N -> Quality] : \A n \in N : ~IsImageName(n) => h[n] = "ok" } } :
            N \in SubsetsUpTo(RawNames, MaxFiles) }

NoFile == <<>>
StaleSrc == <<111, 108, 100>>     \* a frame of an input that is no longer there
OutFile(name, src, r) == [name |-> name, src |-> src, run |-> r, meta |-> NoFile, orient |-> "unset"]
C_start_index == 1000
IA_start_index == 1000
StaleOut(k) == { OutFile(OutName(C_start_index + i), StaleSrc, 0) : i \in 0..(k - 1) }

\* cv2.imwrite over a path: the file is created or overwritten
WriteFile(dir, f) == { o \in dir : o.name # f.name } \cup {f}

\* glob(os.path.join(INPUT_DIR, "*<ext>")) / INPUT_DIR.glob("*<ext>")
Glob(dir, ext) == { f \in dir : EndsWith(f.name, Dot \o ext) }
\* extensions = ['*.jpg', '*.JPG', '*.jpeg', '*.png']
extensions == <<ExtJpg, ExtJPG, ExtJpeg, ExtPng>>

Names(dir) == { f.name : f \in dir }
Msg(kind, file) == [kind |-> kind, file |-> file]

QualityOf(name) == (CHOOSE f \in rawDir : f.name = name).q
Range(s) == { s[i] : i \in 1..Len(s) }

\* files = []; for ext in extensions: files.extend(glob(ext)): every list the four
\* directory listings can produce
GlobLists(dir) ==
    { o1 \o o2 \o o3 \o o4 :
        o1 \in Orderings(Names(Glob(dir, extensions[1]))),
        o2 \in Orderings(Names(Glob(dir, extensions[2]))),
        o3 \in Orderings(Names(Glob(dir, extensions[3]))),
        o4 \in Orderings(Names(Glob(dir, extensions[4]))) }

\* {stem: path for path in listing}: a later file of the listing replaces an
\* earlier one with the same stem
RECURSIVE StemDict(_, _, _)
StemDict(listing, i, d) ==
    IF i > Len(listing) THEN d
    ELSE StemDict(listing, i + 1, Put(d, Stem(listing[i]), listing[i]))

\* one subprocess.run(["exiftool", ...]) per index entry whose stem has a raw file;
\* okset: the entries whose invocation returns 0
ExifCallsFor(index, raw_map, okset, normalize) ==
    { [src |-> raw_map[k], dst |-> index[k], normalize |-> normalize,
       rc |-> IF k \in okset THEN 0 ELSE 1] : k \in (DOMAIN index) \cap (DOMAIN raw_map) }

\* the body of stage_3_metadata_injection / transfer_metadata after the lookup of
\* the tool: without exiftool the stage returns before any invocation
metadata_calls_unchecked(found, index, raw_map, okset, normalize) ==
    ExifCallsFor(index, raw_map, okset, normalize)
metadata_calls(found, index, raw_map, okset, normalize) ==
    IF ~found THEN {} ELSE ExifCallsFor(index, raw_map, okset, normalize)

\* the effect of the successful invocations on the sanitized frames:
\* -TagsFromFile src -all:all copies the tags of src (its orientation included);
\* -Orientation=1 then overrides the orientation
ApplyExif(dir, calls) ==
    { IF \E c \in calls : c.dst = o.name /\ c.rc = 0
      THEN LET c == CHOOSE c \in calls : c.dst = o.name /\ c.rc = 0
           IN  [o EXCEPT !.meta = c.src,
                         !.orient = IF c.normalize THEN "one" ELSE "source"]
      ELSE o : o \in dir }

(***************************************************************************)
(* Classical engine: src/preprocess.py                                     *)
(***************************************************************************)
\* the loop of stage_1_image_processing
RECURSIVE Stage1Loop(_, _, _, _)
Stage1Loop(fs, i, tm, td) ==
    IF i > Len(fs) THEN [temp_map |-> tm, tempDir |-> td]
    ELSE LET file_path == fs[i]
             name == Stem(file_path)
         IN  IF QualityOf(file_path) = "corrupt"
             THEN Stage1Loop(fs, i + 1, tm, td)           \* if img is None: continue
             ELSE Stage1Loop(fs, i + 1,
                             Put(tm, name, TempName(name)),
                             WriteFile(td, [name |-> TempName(name), src |-> file_path,
                                            q |-> QualityOf(file_path)]))

\* main(): if not temp_map: return
main_after_stage_1(tm) == IF DOMAIN tm = {} THEN "done" ELSE "stage2"

stage_1_image_processing ==
    /\ engine = "classical"
    /\ pc = "start"
    /\ \E fs \in GlobLists(rawDir) :
         LET r == Stage1Loop(fs, 1, EmptyDict, {})
         IN  /\ files' = fs
             /\ IF fs = <<>>
                THEN /\ log' = log \cup {Msg("no_images", NoFile)}
                     /\ temp_map' = EmptyDict
                ELSE /\ log' = log
                     /\ temp_map' = r.temp_map
             /\ tempDir' = r.tempDir          \* rmtree + makedirs, then the writes
             /\ pc' = main_after_stage_1(temp_map')
    /\ UNCHANGED <<engine, rawDir, outDir, final_map, mapping, exifCalls, exiftool,
                   sessions, session, inferCalls, run, prev>>
    /\ UNCHANGED <<pipeVars, pixVars, maskVars>>

\* the loop of stage_2_sanitization
RECURSIVE Stage2Loop(_, _, _, _, _)
Stage2Loop(sorted_original_names, i, count, fm, od) ==
    IF i > Len(sorted_original_names) THEN [final_map |-> fm, outDir |-> od]
    ELSE LET original_name == sorted_original_names[i]
             png == CHOOSE t \in tempDir : t.name = temp_map[original_name]
             new_filename == OutName(C_start_index + count)
         IN  IF png.q = "redecode_fail"
             THEN Stage2Loop(sorted_original_names, i + 1, count, fm, od)
             ELSE Stage2Loop(sorted_original_names, i + 1, count + 1,
                             Put(fm, original_name, new_filename),
                             WriteFile(od, OutFile(new_filename, png.src, run)))

stage_2_sanitization ==
    /\ engine = "classical"
    /\ pc = "stage2"
    /\ LET r == Stage2Loop(SortedSeq(DOMAIN temp_map), 1, 0, EmptyDict, {})
       IN  /\ final_map' = r.final_map
           /\ outDir' = r.outDir
    /\ pc' = "stage3"
    /\ UNCHANGED <<engine, rawDir, tempDir, files, temp_map, mapping, log, exifCalls,
                   exiftool, sessions, session, inferCalls, run, prev>>
    /\ UNCHANGED <<pipeVars, pixVars, maskVars>>

stage_3_metadata_injection ==
    /\ engine = "classical"
    /\ pc = "stage3"
    /\ \E listing \in Orderings(Names(rawDir)), found \in BOOLEAN :
         LET raw_path_map == StemDict(listing, 1, EmptyDict)
         IN  \E okset \in SUBSET ((DOMAIN final_map) \cap (DOMAIN raw_path_map)) :
               LET calls == metadata_calls(found, final_map, raw_path_map, okset, FALSE)
               IN  /\ exiftool' = IF found THEN "found" ELSE "missing"
                   /\ exifCalls' = exifCalls \cup calls
                   /\ outDir' = ApplyExif(outDir, calls)
                   /\ log' = log \cup {Msg(IF found THEN "metadata_restored"
                                                   ELSE "exiftool_missing", NoFile)}
    /\ pc' = "report"
    /\ UNCHANGED <<engine, rawDir, tempDir, files, temp_map, final_map, mapping,
                   sessions, session, inferCalls, run, prev>>
    /\ UNCHANGED <<pipeVars, pixVars, maskVars>>

\* main(): the closing banner "[LISTO] Las imagenes estan preparadas en: data/sanitized"
preprocess_main_report ==
    /\ engine = "classical"
    /\ pc = "report"
    /\ log' = log \cup {Msg("final_summary", NoFile)}
    /\ pc' = "done"
    /\ UNCHANGED <<engine, rawDir, outDir, tempDir, files, temp_map, final_map, mapping,
                   exifCalls, exiftool, sessions, session, inferCalls, run, prev>>
    /\ UNCHANGED <<pipeVars, pixVars, maskVars>>

(***************************************************************************)
(* Learned engine: src/preprocess_ia.py                                    *)
(***************************************************************************)
\* the loop of sanitize_images; i is the 0-based index of enumerate(files)
RECURSIVE SanitizeLoop(_, _, _, _, _, _, _)
SanitizeLoop(fs, i, sess, mp, od, lg, calls) ==
    IF i >= Len(fs) THEN [mapping |-> mp, outDir |-> od, log |-> lg, inferCalls |-> calls]
    ELSE LET file_path == fs[i + 1]
             original_name_base == Stem(file_path)
             new_filename == OutName(IA_start_index + i)
             called == calls \cup {[file |-> file_path, session |-> sess]}
         IN  CASE QualityOf(file_path) = "corrupt" ->
                    \* except Exception: logger.error(...); continue
                    SanitizeLoop(fs, i + 1, sess, mp, od,
                                 lg \cup {Msg("error_processing", file_path)}, called)
               [] QualityOf(file_path) = "redecode_fail" ->
                    \* if img_rgba is None: logger.warning(...); continue
                    SanitizeLoop(fs, i + 1, sess, mp, od,
                                 lg \cup {Msg("decode_warning", file_path)}, called)
               [] OTHER ->
                    SanitizeLoop(fs, i + 1, sess,
                                 Put(mp, original_name_base, new_filename),
                                 WriteFile(od, OutFile(new_filename, file_path, run)),
                                 lg, called)

\* try: session = new_session(...) except: logger.critical(...); return {}
\* and then the loop over the frames with that one session
sanitize_frames_ignoring_failure(session_ok, fs, sess) ==
    SanitizeLoop(fs, 0, sess, EmptyDict, {}, log, inferCalls)
sanitize_frames(session_ok, fs, sess) ==
    IF ~session_ok
    THEN [mapping |-> EmptyDict, outDir |-> {},
          log |-> log \cup {Msg("session_critical", NoFile)}, inferCalls |-> inferCalls]
    ELSE SanitizeLoop(fs, 0, sess, EmptyDict, {}, log, inferCalls)

\* main(): if mapping: transfer_metadata(mapping); logger.info(...)
ia_main_after_sanitize(mp) == IF DOMAIN mp = {} THEN "done" ELSE "transfer"

\* the files in the order the listing returned them
unsorted_files(fs) == fs
\* files = sorted(files)
sorted_files(fs) == SortedSeq(Range(fs))

sanitize_images ==
    /\ engine = "learned"
    /\ pc = "start"
    /\ \E fs \in GlobLists(rawDir), session_ok \in BOOLEAN :
         IF fs = <<>>
         THEN /\ files' = fs
              /\ outDir' = {}
              /\ log' = log \cup {Msg("no_images", NoFile)}
              /\ mapping' = EmptyDict
              /\ UNCHANGED <<sessions, session, inferCalls>>
         ELSE /\ files' = sorted_files(fs)
              /\ sessions' = sessions + 1
              /\ session' = IF session_ok THEN "ok" ELSE "failed"
              /\ LET r == sanitize_frames(session_ok, files', sessions')
                 IN  /\ outDir' = r.outDir
                     /\ log' = r.log
                     /\ mapping' = r.mapping
                     /\ inferCalls' = r.inferCalls
    /\ pc' = ia_main_after_sanitize(mapping')
    /\ UNCHANGED <<engine, rawDir, tempDir, temp_map, final_map, exifCalls, exiftool,
                   run, prev>>
    /\ UNCHANGED <<pipeVars, pixVars, maskVars>>

transfer_metadata ==
    /\ engine = "learned"
    /\ pc = "transfer"
    /\ \E listing \in Orderings(Names(rawDir)), found \in BOOLEAN :
         LET raw_map == StemDict(listing, 1, EmptyDict)
         IN  \E okset \in SUBSET ((DOMAIN mapping) \cap (DOMAIN raw_map)) :
               LET calls == metadata_calls(found, mapping, raw_map, okset, TRUE)
               IN  /\ exiftool' = IF found THEN "found" ELSE "missing"
                   /\ exifCalls' = exifCalls \cup calls
                   /\ outDir' = ApplyExif(outDir, calls)
                   /\ log' = log \cup {Msg(IF found THEN "metadata_restored"
                                                   ELSE "exiftool_missing", NoFile)}
    /\ pc' = "report"
    /\ UNCHANGED <<engine, rawDir, tempDir, files, temp_map, final_map, mapping,
                   sessions, session, inferCalls, run, prev>>
    /\ UNCHANGED <<pipeVars, pixVars, maskVars>>

\* main(): logger.info("Proceso finalizado. Salida disponible en: ...")
ia_main_report ==
    /\ engine = "learned"
    /\ pc = "report"
    /\ log' = log \cup {Msg("final_summary", NoFile)}
    /\ pc' = "done"
    /\ UNCHANGED <<engine, rawDir, outDir, tempDir, files, temp_map, final_map, mapping,
                   exifCalls, exiftool, sessions, session, inferCalls, run, prev>>
    /\ UNCHANGED <<pipeVars, pixVars, maskVars>>

(***************************************************************************)
(* Runs of the sanitization scripts                                        *)
(***************************************************************************)
Index == IF engine = "classical" THEN final_map ELSE mapping

\* the script is started again on the same input directory
Rerun ==
    /\ pc = "done"
    /\ run < MaxRuns
    /\ run' = run + 1
    /\ prev' = [names |-> Names(outDir), index |-> Index, session |-> session]
    /\ pc' = "start"
    /\ files' = <<>>
    /\ temp_map' = EmptyDict
    /\ final_map' = EmptyDict
    /\ mapping' = EmptyDict
    /\ log' = {}
    /\ exifCalls' = {}
    /\ exiftool' = "unknown"
    /\ sessions' = 0
    /\ session' = "none"
    /\ inferCalls' = {}
    /\ UNCHANGED <<engine, rawDir, outDir, tempDir>>
    /\ UNCHANGED <<pipeVars, pixVars, maskVars>>

SanIdle ==
    /\ engine = "classical"
    /\ rawDir = {}
    /\ outDir = {}
    /\ tempDir = {}
    /\ files = <<>>
    /\ temp_map = EmptyDict
    /\ final_map = EmptyDict
    /\ mapping = EmptyDict
    /\ pc = "off"
    /\ log = {}
    /\ exifCalls = {}
    /\ exiftool = "unknown"
    /\ sessions = 0
    /\ session = "none"
    /\ inferCalls = {}
    /\ run = 1
    /\ prev = [names |-> {}, index |-> EmptyDict, session |-> "none"]

PipeIdle ==
    /\ env = [bin |-> FALSE, db |-> FALSE]
    /\ sanExists = FALSE
    /\ sanDir = {}
    /\ recon = [exists |-> FALSE, files |-> {}]
    /\ ppc = "off"
    /\ invoked = <<>>
    /\ exits = <<>>
    /\ status = -1
    /\ summary = FALSE

PixIdle ==
    /\ px = [r |-> 0, g |-> 0, b |-> 0, a |-> 0]
    /\ gout = [r |-> 0, g |-> 0, b |-> 0]
    /\ dpc = "off"

MaskIdle ==
    /\ image = [h |-> 0, w |-> 0, rect |-> [x |-> 0, y |-> 0, w |-> 0, h |-> 0],
                bg |-> <<0, 0, 0>>, fg |-> <<0, 0, 0>>]
    /\ final_mask = {}
    /\ mpc = "off"

Init ==
    /\ engine \in {"classical", "learned"}
    /\ rawDir \in RawDirs
    /\ outDir \in { StaleOut(k) : k \in 0..MaxStale }
    /\ tempDir = {}
    /\ files = <<>>
    /\ temp_map = EmptyDict
    /\ final_map = EmptyDict
    /\ mapping = EmptyDict
    /\ pc = "start"
    /\ log = {}
    /\ exifCalls = {}
    /\ exiftool = "unknown"
    /\ sessions = 0
    /\ session = "none"
    /\ inferCalls = {}
    /\ run = 1
    /\ prev = [names |-> {}, index |-> EmptyDict, session |-> "none"]
    /\ PipeIdle
    /\ PixIdle
    /\ MaskIdle

Next ==
    \/ stage_1_image_processing
    \/ stage_2_sanitization
    \/ stage_3_metadata_injection
    \/ preprocess_main_report
    \/ sanitize_images
    \/ transfer_metadata
    \/ ia_main_report
    \/ Rerun

Spec == Init /\ [][Next]_vars

(***************************************************************************)
(* Orchestrator: src/pipeline.py                                           *)
(***************************************************************************)
\* what data/sanitized may hold: sanitized frames and files that are not .jpg
SanNames ==
    { OutName(C_start_index + i) : i \in 0..(MaxSanFiles - 1) }
    \cup { Digits(C_start_index) \o Dot \o ExtJPG, Digits(C_start_index) \o Dot \o ExtPng }

\* len([f for f in os.listdir(INPUT_IMAGES_DIR) if f.endswith('.jpg')])
num_files == Cardinality({ f \in sanDir : EndsWith(f, Dot \o ExtJpg) })

validate_environment_two_suffice ==
    IF ~env.bin \/ ~env.db THEN FALSE
    ELSE IF ~sanExists THEN FALSE
    ELSE IF num_files < 2 THEN FALSE
    ELSE TRUE
validate_environment ==
    IF ~env.bin \/ ~env.db THEN FALSE
    ELSE IF ~sanExists THEN FALSE
    ELSE IF num_files < 3 THEN FALSE
    ELSE TRUE

\* the step_name of the ten run_alicevision_node calls of main(), in order
Steps == << "CameraInit", "FeatureExtraction", "ImageMatching", "FeatureMatching",
            "StructureFromMotion", "PrepareDenseScene", "DepthMapEstimation",
            "DepthMapFiltering", "Meshing", "Texturing" >>

Artifact(name) == [name |-> name, gen |-> "new"]
\* os.makedirs(features_dir) / os.makedirs(matches_dir) before steps 2 and 4
MadeBefore(k) ==
    CASE k = 2 -> {Artifact("features")}
      [] k = 4 -> {Artifact("matches")}
      [] OTHER -> {}
\* the --output / --outputMesh / --outputViewsAndPoses of each step
Outputs(k) ==
    CASE k = 1 -> {Artifact("cameraInit.sfm")}
      [] k = 2 -> {Artifact("features")}
      [] k = 3 -> {Artifact("imageMatches.txt")}
      [] k = 4 -> {Artifact("matches")}
      [] k = 5 -> {Artifact("sfm.abc"), Artifact("cameras.sfm")}
      [] k = 6 -> {Artifact("denseScene")}
      [] k = 7 -> {Artifact("depthMaps")}
      [] k = 8 -> {Artifact("filteredDepthMaps")}
      [] k = 9 -> {Artifact("densePointCloud.sfm"), Artifact("mesh.obj")}
      [] OTHER -> {Artifact("texturedMesh.obj")}

\* results of subprocess.run(cmd_list, check=True): exit status 0, a nonzero exit
\* status (CalledProcessError), or the binary cannot be started (OSError)
NodeResults == {"0", "nonzero", "oserror"}

\* main(): if not validate_environment(): sys.exit(1)
pipeline_main_validate ==
    /\ ppc = "start"
    /\ IF validate_environment
       THEN /\ ppc' = "clean"
            /\ UNCHANGED status
       ELSE /\ ppc' = "exited"
            /\ status' = 1
    /\ UNCHANGED <<env, sanExists, sanDir, recon, invoked, exits, summary>>
    /\ UNCHANGED <<sanVars, pixVars, maskVars>>

\* main(): rmtree(OUTPUT_ROOT) if it exists, then makedirs
pipeline_main_clean ==
    /\ ppc = "clean"
    /\ recon' = [exists |-> TRUE, files |-> {}]
    /\ ppc' = "nodes"
    /\ UNCHANGED <<env, sanExists, sanDir, invoked, exits, status, summary>>
    /\ UNCHANGED <<sanVars, pixVars, maskVars>>

\* where main() stands after step k returned or raised: only exit status 0 lets
\* it go on; CalledProcessError is caught and ends in sys.exit(1), any other
\* exception ends the process with a traceback (status 1)
after_node_unchecked(k, result) ==
    [ppc |-> IF k = Len(Steps) THEN "summary" ELSE "nodes", status |-> -1]
after_node(k, result) ==
    IF result = "0"
    THEN [ppc |-> IF k = Len(Steps) THEN "summary" ELSE "nodes", status |-> -1]
    ELSE [ppc |-> "exited", status |-> 1]

\* the k-th run_alicevision_node(...) call of main()
run_alicevision_node ==
    /\ ppc = "nodes"
    /\ Len(invoked) < Len(Steps)
    /\ LET k == Len(invoked) + 1
       IN  \E result \in NodeResults :
             /\ invoked' = Append(invoked, Steps[k])
             /\ exits' = Append(exits, result)
             /\ recon' = [recon EXCEPT !.files =
                            @ \cup MadeBefore(k) \cup (IF result = "0" THEN Outputs(k) ELSE {})]
             /\ ppc' = after_node(k, result).ppc
             /\ status' = after_node(k, result).status
    /\ UNCHANGED <<env, sanExists, sanDir, summary>>
    /\ UNCHANGED <<sanVars, pixVars, maskVars>>

\* main(): the closing "[INFO] PROCESO FINALIZADO EXITOSAMENTE"
pipeline_main_summary ==
    /\ ppc = "summary"
    /\ summary' = TRUE
    /\ status' = 0
    /\ ppc' = "exited"
    /\ UNCHANGED <<env, sanExists, sanDir, recon, invoked, exits>>
    /\ UNCHANGED <<sanVars, pixVars, maskVars>>

ReconDirs ==
    { [exists |-> FALSE, files |-> {}],
      [exists |-> TRUE, files |-> {}],
      [exists |-> TRUE, files |-> {[name |-> "texturedMesh.obj", gen |-> "old"]}] }

PipelineInit ==
    /\ env \in [bin : BOOLEAN, db : BOOLEAN]
    /\ sanExists \in BOOLEAN
    /\ sanDir \in SUBSET SanNames
    /\ ~sanExists => sanDir = {}
    /\ recon \in ReconDirs
    /\ ppc = "start"
    /\ invoked = <<>>
    /\ exits = <<>>
    /\ status = -1
    /\ summary = FALSE
    /\ SanIdle
    /\ PixIdle
    /\ MaskIdle

PipelineNext ==
    \/ pipeline_main_validate
    \/ pipeline_main_clean
    \/ run_alicevision_node
    \/ pipeline_main_summary

PipelineSpec == PipelineInit /\ [][PipelineNext]_vars

(***************************************************************************)
(* Green spill reduction: src/preprocess_ia.py                             *)
(***************************************************************************)
\* DESPILL_FACTOR = 0.8, in tenths
DESPILL_FACTOR_TENTHS == 8

\* green_spill_reduction on one pixel. rb_avg = (r + b) / 2.0 and the blend
\* g * (1 - DESPILL_FACTOR) + rb_avg * DESPILL_FACTOR are kept exact as
\* twentieths; astype(np.uint8) truncates. (For 8-bit inputs the float32
\* rounding of the blend never crosses an integer, so the truncated value is
\* that of the exact blend.)
green_spill_reduction(p) ==
    LET rb_sum == p.r + p.b
        spill_mask == (2 * p.g > rb_sum) /\ (p.a > 0)
        blend20 == 2 * p.g * (10 - DESPILL_FACTOR_TENTHS) + rb_sum * DESPILL_FACTOR_TENTHS
    IN  [r |-> p.r, g |-> IF spill_mask THEN blend20 \div 20 ELSE p.g, b |-> p.b]

Channels == 0..MaxChannel
Alphas == {0, 1, 255}

Despill ==
    /\ dpc = "input"
    /\ gout' = green_spill_reduction(px)
    /\ dpc' = "done"
    /\ UNCHANGED px
    /\ UNCHANGED <<sanVars, pipeVars, maskVars>>

DespillInit ==
    /\ px \in [r : Channels, g : Channels, b : Channels, a : Alphas]
    /\ gout = [r |-> 0, g |-> 0, b |-> 0]
    /\ dpc = "input"
    /\ SanIdle
    /\ PipeIdle
    /\ MaskIdle

DespillNext == Despill

DespillSpec == DespillInit /\ [][DespillNext]_vars

(***************************************************************************)
(* Classical mask chain: src/preprocess.py, stage_1_image_processing       *)
(***************************************************************************)
BG_LOWER == <<69, 173, 62>>
BG_UPPER == <<92, 255, 255>>
\* ROI_RATIO = 0.85, in hundredths
ROI_RATIO_PERCENT == 85

\* pixels <<x, y>> of an h x w buffer
Pixels(h, w) == (0..(w - 1)) \X (0..(h - 1))
RectPixels(r) == (r.x..(r.x + r.w - 1)) \X (r.y..(r.y + r.h - 1))
ColorAt(img, p) == IF p \in RectPixels(img.rect) THEN img.fg ELSE img.bg

\* cv2.inRange on one pixel: every channel inside the closed range
inRange(color, lower, upper) == \A c \in 1..3 : lower[c] <= color[c] /\ color[c] <= upper[c]

\* mask_fg = cv2.bitwise_not(cv2.inRange(hsv, BG_LOWER, BG_UPPER))
mask_fg(img) == { p \in Pixels(img.h, img.w) : ~inRange(ColorAt(img, p), BG_LOWER, BG_UPPER) }

\* create_circular_mask(h, w, ROI_RATIO): the filled disc of radius
\* int(min(h, w) * ratio / 2) around (w // 2, h // 2): the pixels within the
\* radius of the centre
create_circular_mask(h, w) ==
    LET cx == w \div 2
        cy == h \div 2
        radius == (Min(h, w) * ROI_RATIO_PERCENT) \div 200
    IN  { p \in Pixels(h, w) :
            (p[1] - cx) * (p[1] - cx) + (p[2] - cy) * (p[2] - cy) <= radius * radius }

\* 8-connectivity
Adjacent8(p, q) ==
    /\ p # q
    /\ p[1] - q[1] \in -1..1
    /\ p[2] - q[2] \in -1..1
RECURSIVE Grow(_, _)
Grow(S, mask) ==
    LET N == S \cup { q \in mask : \E p \in S : Adjacent8(p, q) }
    IN  IF N = S THEN S ELSE Grow(N, mask)
\* labels are given in raster order
FirstFound(C, w) == CHOOSE p \in C : \A q \in C : p[2] * w + p[1] <= q[2] * w + q[1]
\* the labels 1.. of cv2.connectedComponentsWithStats
RECURSIVE Components(_, _)
Components(mask, w) ==
    IF mask = {} THEN {}
    ELSE LET C == Grow({FirstFound(mask, w)}, mask)
         IN  {C} \cup Components(mask \ C, w)

\* keep_largest_component: the component of largest area, the first found among
\* equals; a mask without components is returned as it is
keep_largest_component(mask, w) ==
    LET comps == Components(mask, w)
        Found(C) == FirstFound(C, w)[2] * w + FirstFound(C, w)[1]
    IN  IF comps = {} THEN mask
        ELSE CHOOSE C \in comps :
                \A D \in comps :
                   \/ Cardinality(C) > Cardinality(D)
                   \/ Cardinality(C) = Cardinality(D) /\ Found(C) <= Found(D)

\* np.ones((5, 5), np.uint8), anchored at its centre
KernelOffsets == (-2..2) \X (-2..2)
Shift(p, d) == <<p[1] + d[1], p[2] + d[2]>>
\* cv2.erode: a pixel stays when every pixel under the kernel is set (pixels
\* beyond the border do not count)
erode(mask, h, w) ==
    { p \in Pixels(h, w) :
        \A d \in KernelOffsets : Shift(p, d) \in Pixels(h, w) => Shift(p, d) \in mask }
\* cv2.dilate: a pixel is set when some pixel under the kernel is set
dilate(mask, h, w) ==
    { p \in Pixels(h, w) : \E d \in KernelOffsets : Shift(p, d) \in mask }
\* an opening that stops after its erosion
morph_open_erode_only(mask, h, w) == erode(mask, h, w)
\* cv2.morphologyEx(mask, cv2.MORPH_OPEN, kernel): erosion, then dilation
morph_open(mask, h, w) == dilate(erode(mask, h, w), h, w)

\* the mask chain of stage_1_image_processing on one image
classical_mask ==
    /\ mpc = "input"
    /\ LET roi == create_circular_mask(image.h, image.w)
           masked == mask_fg(image) \cap roi               \* cv2.bitwise_and
           largest == keep_largest_component(masked, image.w)
       IN  final_mask' = morph_open(largest, image.h, image.w)
    /\ mpc' = "done"
    /\ UNCHANGED image
    /\ UNCHANGED <<sanVars, pipeVars, pixVars>>

\* colours inside and outside BG_LOWER..BG_UPPER
BgColors == { BG_LOWER, BG_UPPER }
FgColors == { <<68, 173, 62>>, <<92, 255, 0>> }
Sides == (MaxSide - 1)..MaxSide

\* background everywhere but in one rectangle that lies inside the ROI
SyntheticImages ==
    UNION { { [h |-> h, w |-> w, rect |-> r, bg |-> bg, fg |-> fg] :
                r \in { q \in [x : 0..(w - 1), y : 0..(h - 1), w : 1..w, h : 1..h] :
                          RectPixels(q) \subseteq create_circular_mask(h, w) },
                bg \in BgColors, fg \in FgColors } :
            h \in Sides, w \in Sides }

MaskInit ==
    /\ image \in SyntheticImages
    /\ final_mask = {}
    /\ mpc = "input"
    /\ SanIdle
    /\ PipeIdle
    /\ PixIdle

MaskNext == classical_mask

MaskSpec == MaskInit /\ [][MaskNext]_vars

(***************************************************************************)
(* Properties of the sanitization engines                                  *)
(***************************************************************************)
RECURSIVE ParseInt(_)
\* int(digits)
ParseInt(d) == IF d = <<>> THEN 0
               ELSE 10 * ParseInt(SubSeq(d, 1, Len(d) - 1)) + (d[Len(d)] - 48)
\* the numeric suffix of an output file name
IndexOf(name) == ParseInt(Stem(name))

HasMsg(kind) == \E m \in log : m.kind = kind
Globbed == Range(files)
ValidInputs == { n \in Globbed : QualityOf(n) = "ok" }
Contiguous(k) == { OutName(1000 + i) : i \in 0..(k - 1) }

\* the sanitization of the current run has completed: stage 2 has returned
\* (classical) or sanitize_images has returned (learned)
SanitizationFinished ==
    \/ engine = "classical" /\ (pc \in {"stage3", "report"} \/ (pc = "done" /\ HasMsg("final_summary")))
    \/ engine = "learned" /\ pc \in {"transfer", "report", "done"}

\* C1: bijection -- when every input image decodes (and the session was built),
\* the output directory holds exactly N files named 1000.jpg .. (999+N).jpg,
\* N the number of input images
C1_Bijection ==
    (SanitizationFinished /\ session # "failed" /\ ValidInputs = Globbed)
        => Names(outDir) = Contiguous(Len(files))

\* C2: contiguity under dropped frames -- whatever frames were dropped, the
\* files of the output directory are numbered 1000 .. 1000+k-1, k their number
C2_ContiguousUnderDrops ==
    SanitizationFinished => Names(outDir) = Contiguous(Cardinality(outDir))

\* C3: ordering -- two processed inputs whose base names satisfy A < B get
\* output indices in the same order
C3_OrderByBaseName ==
    SanitizationFinished =>
        \A o1, o2 \in outDir :
            LexLess(Stem(o1.src), Stem(o2.src)) => IndexOf(o1.name) < IndexOf(o2.name)

\* N >= 1 valid images with distinct base names and exactly one corrupt file
OneCorruptAmongValid ==
    /\ Cardinality({ n \in Globbed : QualityOf(n) = "corrupt" }) = 1
    /\ Cardinality(ValidInputs) = Cardinality(Globbed) - 1
    /\ ValidInputs # {}
    /\ \A m, n \in Globbed : Stem(m) = Stem(n) => m = n

\* C4: skip on decode failure -- with one corrupt file among N valid ones the run
\* ends having written the frames of exactly the valid images, having logged a
\* message that names the skipped file, and having gone on to the metadata stage
C4_SkipOnDecodeFailure ==
    (pc = "done" /\ session # "failed" /\ OneCorruptAmongValid) =>
        /\ { o.src : o \in outDir } = ValidInputs
        /\ Cardinality(outDir) = Cardinality(ValidInputs)
        /\ \A n \in Globbed : QualityOf(n) = "corrupt" => \E m \in log : m.file = n
        /\ exiftool # "unknown"

\* C5: the output directory is fully replaced -- when a run has ended, every file
\* of the output directory was written by that run
C5_OutputFullyReplaced ==
    pc = "done" => \A o \in outDir : o.run = run

\* C8: degraded but continue -- when exiftool is not found the metadata stage
\* invokes no subprocess and changes neither the sanitized frames nor the index,
\* and the run goes on to its closing report
C8_DegradedButContinue ==
    /\ [](exiftool = "missing" =>
            /\ exifCalls = {}
            /\ \A o \in outDir : o.meta = NoFile /\ o.orient = "unset"
            /\ pc \in {"report", "done"}
            /\ pc = "done" => HasMsg("final_summary"))
    /\ [][(exiftool = "unknown" /\ exiftool' = "missing") =>
            /\ outDir' = outDir
            /\ final_map' = final_map
            /\ mapping' = mapping
            /\ exifCalls' = exifCalls
            /\ pc' = "report"]_vars

\* a run of either engine that found no exiftool, with frames to tag, has ended
C8_Witness ==
    /\ pc = "done"
    /\ exiftool = "missing"
    /\ outDir # {}
    /\ DOMAIN Index # {}
    /\ HasMsg("final_summary")

\* C9: a failed construction of the inference session ends the run: no frame is
\* inferred or written, no metadata is transferred, the failure is logged and the
\* closing report of a successful run is not; a run builds at most one session
\* and every inference of the run uses it
C9_SessionFailureIsFatal ==
    /\ session = "failed" =>
            /\ pc = "done"
            /\ inferCalls = {}
            /\ outDir = {}
            /\ DOMAIN mapping = {}
            /\ exifCalls = {}
            /\ exiftool = "unknown"
            /\ HasMsg("session_critical")
            /\ ~HasMsg("final_summary")
    /\ sessions <= 1
    /\ \A c \in inferCalls : sessions = 1 /\ c.session = 1

\* the session could not be built although the input holds a decodable image
C9_Witness ==
    /\ engine = "learned"
    /\ session = "failed"
    /\ ValidInputs # {}
    /\ pc = "done"

(***************************************************************************)
(* Properties of the orchestrator                                          *)
(***************************************************************************)
\* C6: fail-fast precondition -- with fewer than 3 sanitized .jpg frames the
\* orchestrator exits with a failure before any toolchain binary is invoked and
\* never touches the reconstruction output directory
C6_FailFastPrecondition ==
    /\ []((num_files < 3 /\ ppc # "start") =>
            /\ ppc = "exited"
            /\ status = 1
            /\ invoked = <<>>
            /\ ~summary)
    /\ [][num_files < 3 => recon' = recon]_vars

\* the run was refused for its two frames only, an earlier reconstruction in place
C6_Witness ==
    /\ ppc = "exited"
    /\ env.bin /\ env.db /\ sanExists
    /\ num_files = 2
    /\ recon.exists /\ recon.files # {}

\* C7: toolchain fail-fast and stage order -- the steps are invoked in the fixed
\* order, each one only after all earlier ones exited 0 and none twice; a step
\* that does not exit 0 is the last one invoked and the run ends with a failure
\* status; the success summary is printed only after ten exits of 0
C7_FailFastStageOrder ==
    /\ Len(invoked) <= Len(Steps)
    /\ Len(exits) = Len(invoked)
    /\ \A i \in 1..Len(invoked) : invoked[i] = Steps[i]
    /\ \A i \in 1..(Len(exits) - 1) : exits[i] = "0"
    /\ \A i \in 1..Len(exits) :
          exits[i] # "0" => (i = Len(exits) /\ ppc = "exited" /\ status = 1 /\ ~summary)
    /\ summary => (Len(exits) = Len(Steps) /\ \A i \in 1..Len(exits) : exits[i] = "0")
    /\ status = 0 => summary

\* the fifth step exited nonzero and ended the run
C7_Witness ==
    /\ Len(invoked) = 5
    /\ exits[5] = "nonzero"
    /\ ppc = "exited"
    /\ status = 1

(***************************************************************************)
(* Properties of the green spill reduction                                 *)
(***************************************************************************)
\* C10: spill correction bound -- for a pixel with nonzero alpha whose green
\* exceeds the red/blue average, the returned green lies strictly between that
\* average and the original green
C10_SpillBound ==
    (dpc = "done" /\ px.a > 0 /\ 2 * px.g > px.r + px.b) =>
        /\ px.r + px.b < 2 * gout.g
        /\ gout.g < px.g

(***************************************************************************)
(* Properties of the classical mask chain                                  *)
(***************************************************************************)
\* C11 as stated: mask monotonicity -- the mask is 255 exactly on the pixels of
\* the rectangle, whatever the rectangle's width and height
C11_MaskIsRectangle ==
    mpc = "done" => final_mask = RectPixels(image.rect)

\* C11 as amended: the mask is 255 exactly on the pixels of the rectangle when
\* the rectangle is at least 5 pixels wide and 5 pixels high; a narrower or
\* lower rectangle is removed by the 5x5 opening and the mask is 0 everywhere
C11_MaskIsRectangleFrom5x5 ==
    mpc = "done" =>
        final_mask = IF image.rect.w >= 5 /\ image.rect.h >= 5
                     THEN RectPixels(image.rect)
                     ELSE {}

\* a rectangle 5 pixels wide came through the chain unchanged
C11_Witness ==
    /\ mpc = "done"
    /\ image.rect.w = 5
    /\ image.rect.h >= 5
    /\ final_mask = RectPixels(image.rect)
    /\ final_mask # {}

(***************************************************************************)
(* Properties of the metadata stages and of input discovery                *)
(***************************************************************************)
\* C12: orientation normalization -- in both engines every invocation of the
\* metadata tool also requests orientation 1, so every sanitized frame that
\* received metadata has orientation 1
C12_OrientationNormalized ==
    /\ \A c \in exifCalls : c.normalize
    /\ \A o \in outDir : o.meta # NoFile => o.orient = "one"

\* str.lower() on ASCII: A..Z become a..z
Lower(s) == [i \in 1..Len(s) |-> IF s[i] \in 65..90 THEN s[i] + 32 ELSE s[i]]
\* the part of a name after its last dot
Extension(s) == IF LastDot(s) <= 1 THEN <<>> ELSE SubSeq(s, LastDot(s) + 1, Len(s))
HasImageExtension(n) == Lower(Extension(n)) \in {ExtJpg, ExtJpeg, ExtPng}

\* C13: input discovery is case-insensitive on the extension -- once the input
\* directory has been listed, the files picked up are exactly the files whose
\* extension is jpg, jpeg or png in any letter case, each of them once
C13_CaseInsensitiveDiscovery ==
    pc # "start" =>
        /\ Range(files) = { n \in Names(rawDir) : HasImageExtension(n) }
        /\ \A i, j \in 1..Len(files) : files[i] = files[j] => i = j

(***************************************************************************)
(* Properties of repeated runs                                             *)
(***************************************************************************)
\* C14: idempotence of rerun -- when a run on the same input directory ends with
\* the same outcomes as the run before it (the per-file decode outcomes belong to
\* the input; the inference session started or failed in both), it leaves the
\* same output file names, hence the same count, and the same index from
\* original base names to output files, whatever order the listings returned
C14_RerunIdempotent ==
    (run > 1 /\ pc = "done" /\ session = prev.session) =>
        /\ Names(outDir) = prev.names
        /\ Index = prev.index

\* a second run over two frames has ended like the first
C14_Witness ==
    /\ run > 1
    /\ pc = "done"
    /\ session = prev.session
    /\ Len(files) = 2
    /\ Cardinality(Names(outDir)) = 2
    /\ Cardinality(DOMAIN Index) = 2
    /\ Names(outDir) = prev.names
    /\ Index = prev.index

(***************************************************************************)
(* Properties of metadata provenance                                       *)
(***************************************************************************)
\* the keys under which the index of this run lists an output file
IndexKeys(name) == { k \in DOMAIN Index : Index[k] = name }

\* C15 (first part): metadata provenance -- the source file named in every
\* invocation of the metadata tool is the input file from which the target
\* frame was produced
C15_SourceIsOrigin ==
    \A c \in exifCalls : \A o \in outDir : o.name = c.dst => c.src = o.src

\* C15 (second part): every output frame written by the run has exactly one
\* entry in the index
C15_OneEntryPerFrame ==
    \A o \in outDir : o.run = run => Cardinality(IndexKeys(o.name)) = 1

\* C15: metadata provenance -- both parts together
C15_MetadataProvenance == C15_SourceIsOrigin /\ C15_OneEntryPerFrame

====
